---------------------------- MODULE Spec2Model ----------------------------
(* A state-machine model of the ZenML SQL example: the SQLQuery record and its   *)
(* codec (sql_executor.py), the SQLQueryMaterializer (sql_materializer.py) and  *)
(* the batch runner simple_sql_pipeline with its two steps                      *)
(* (simple_sql_pipeline.py).                                                    *)
EXTENDS Integers, Sequences, FiniteSets, TLC

(***************************************************************************)
(* Text.  A Python str is a sequence of one-character strings, so that      *)
(* upper(), `in`, slicing and concatenation are computed on characters.     *)
(***************************************************************************)
LowerAlpha ==
    <<"a","b","c","d","e","f","g","h","i","j","k","l","m","n","o","p","q","r","s","t","u","v","w","x","y","z">>

UpperAlpha ==
    <<"A","B","C","D","E","F","G","H","I","J","K","L","M","N","O","P","Q","R","S","T","U","V","W","X","Y","Z">>

Digits == <<"0","1","2","3","4","5","6","7","8","9">>

\* str.upper() on one character (ASCII letters; every other character is kept)
UpperChar(c) ==
    IF \E i \in 1..26 : LowerAlpha[i] = c
    THEN UpperAlpha[CHOOSE i \in 1..26 : LowerAlpha[i] = c]
    ELSE c

\* query.upper()
Upper(s) == [i \in 1..Len(s) |-> UpperChar(s[i])]

\* needle in hay  (literal substring test)
Contains(hay, needle) ==
    \E i \in 0..(Len(hay) - Len(needle)) : SubSeq(hay, i + 1, i + Len(needle)) = needle

\* "".join(parts)
RECURSIVE Concat(_)
Concat(parts) ==
    IF parts = <<>> THEN <<>> ELSE Head(parts) \o Concat(Tail(parts))

(***************************************************************************)
(* The keyword vocabulary of _extract_sql_keywords, in the order of the     *)
(* source list.                                                              *)
(***************************************************************************)
sql_keywords ==
    <<<<"S","E","L","E","C","T">>,
      <<"F","R","O","M">>,
      <<"W","H","E","R","E">>,
      <<"J","O","I","N">>,
      <<"I","N","N","E","R"," ","J","O","I","N">>,
      <<"L","E","F","T"," ","J","O","I","N">>,
      <<"R","I","G","H","T"," ","J","O","I","N">>,
      <<"G","R","O","U","P"," ","B","Y">>,
      <<"O","R","D","E","R"," ","B","Y">>,
      <<"H","A","V","I","N","G">>,
      <<"I","N","S","E","R","T">>,
      <<"U","P","D","A","T","E">>,
      <<"D","E","L","E","T","E">>,
      <<"C","R","E","A","T","E">>,
      <<"A","L","T","E","R">>,
      <<"D","R","O","P">>,
      <<"I","N","D","E","X">>,
      <<"T","A","B","L","E">>,
      <<"V","I","E","W">>,
      <<"P","R","O","C","E","D","U","R","E">>,
      <<"F","U","N","C","T","I","O","N">>,
      <<"U","N","I","O","N">>,
      <<"I","N","T","E","R","S","E","C","T">>,
      <<"E","X","C","E","P","T">>,
      <<"W","I","T","H">>,
      <<"C","T","E">>,
      <<"W","I","N","D","O","W">>,
      <<"O","V","E","R">>,
      <<"P","A","R","T","I","T","I","O","N"," ","B","Y">>,
      <<"R","O","W","_","N","U","M","B","E","R">>,
      <<"R","A","N","K">>,
      <<"D","E","N","S","E","_","R","A","N","K">>,
      <<"C","O","U","N","T">>,
      <<"S","U","M">>,
      <<"A","V","G">>,
      <<"M","I","N">>,
      <<"M","A","X">>,
      <<"C","A","S","E">>,
      <<"W","H","E","N">>,
      <<"T","H","E","N">>,
      <<"E","L","S","E">>,
      <<"E","N","D">>>>

(***************************************************************************)
(* The five scripts of simple_sql_pipeline, character for character.        *)
(***************************************************************************)
ScriptQuery1 ==
    <<"\n"," "," "," "," "," "," "," "," "," "," "," "," ","C","R","E","A","T","E"," ","T","A",
      "B","L","E"," ","I","F"," ","N","O","T"," ","E","X","I","S","T","S"," ","u","s","e","r",
      "s"," ","(","\n"," "," "," "," "," "," "," "," "," "," "," "," "," "," "," "," ","i","d",
      " ","S","E","R","I","A","L"," ","P","R","I","M","A","R","Y"," ","K","E","Y",",","\n"," ",
      " "," "," "," "," "," "," "," "," "," "," "," "," "," "," ","n","a","m","e"," ","V","A",
      "R","C","H","A","R","(","2","5","5",")"," ","N","O","T"," ","N","U","L","L",",","\n"," ",
      " "," "," "," "," "," "," "," "," "," "," "," "," "," "," ","e","m","a","i","l"," ","V",
      "A","R","C","H","A","R","(","2","5","5",")"," ","U","N","I","Q","U","E"," ","N","O","T",
      " ","N","U","L","L",",","\n"," "," "," "," "," "," "," "," "," "," "," "," "," "," "," ",
      " ","c","r","e","a","t","e","d","_","a","t"," ","T","I","M","E","S","T","A","M","P"," ",
      "D","E","F","A","U","L","T"," ","C","U","R","R","E","N","T","_","T","I","M","E","S","T",
      "A","M","P",",","\n"," "," "," "," "," "," "," "," "," "," "," "," "," "," "," "," ","s",
      "t","a","t","u","s"," ","V","A","R","C","H","A","R","(","5","0",")"," ","D","E","F","A",
      "U","L","T"," ","'","a","c","t","i","v","e","'","\n"," "," "," "," "," "," "," "," "," ",
      " "," "," ",")","\n"," "," "," "," "," "," "," "," "," "," "," "," ">>

ScriptQuery2 ==
    <<"\n"," "," "," "," "," "," "," "," "," "," "," "," ","I","N","S","E","R","T"," ","I","N",
      "T","O"," ","u","s","e","r","s"," ","(","n","a","m","e",","," ","e","m","a","i","l",")",
      " ","V","A","L","U","E","S","\n"," "," "," "," "," "," "," "," "," "," "," "," ","(","'",
      "J","o","h","n"," ","D","o","e","'",","," ","'","j","o","h","n","@","e","x","a","m","p",
      "l","e",".","c","o","m","'",")",",","\n"," "," "," "," "," "," "," "," "," "," "," "," ",
      "(","'","J","a","n","e"," ","S","m","i","t","h","'",","," ","'","j","a","n","e","@","e",
      "x","a","m","p","l","e",".","c","o","m","'",")",",","\n"," "," "," "," "," "," "," "," ",
      " "," "," "," ","(","'","B","o","b"," ","J","o","h","n","s","o","n","'",","," ","'","b",
      "o","b","@","e","x","a","m","p","l","e",".","c","o","m","'",")",",","\n"," "," "," "," ",
      " "," "," "," "," "," "," "," ","(","'","A","l","i","c","e"," ","B","r","o","w","n","'",
      ","," ","'","a","l","i","c","e","@","e","x","a","m","p","l","e",".","c","o","m","'",")",
      ",","\n"," "," "," "," "," "," "," "," "," "," "," "," ","(","'","C","h","a","r","l","i",
      "e"," ","W","i","l","s","o","n","'",","," ","'","c","h","a","r","l","i","e","@","e","x",
      "a","m","p","l","e",".","c","o","m","'",")","\n"," "," "," "," "," "," "," "," "," "," ",
      " "," ">>

ScriptQuery3 ==
    <<"\n"," "," "," "," "," "," "," "," "," "," "," "," ","U","P","D","A","T","E"," ","u","s",
      "e","r","s"," ","\n"," "," "," "," "," "," "," "," "," "," "," "," ","S","E","T"," ","s",
      "t","a","t","u","s"," ","="," ","'","p","r","e","m","i","u","m","'"," ","\n"," "," "," ",
      " "," "," "," "," "," "," "," "," ","W","H","E","R","E"," ","e","m","a","i","l"," ","I",
      "N"," ","(","'","j","o","h","n","@","e","x","a","m","p","l","e",".","c","o","m","'",",",
      " ","'","j","a","n","e","@","e","x","a","m","p","l","e",".","c","o","m","'",")","\n"," ",
      " "," "," "," "," "," "," "," "," "," "," ">>

ScriptQuery4 ==
    <<"\n"," "," "," "," "," "," "," "," "," "," "," "," ","S","E","L","E","C","T"," ","i","d",
      ","," ","n","a","m","e",","," ","e","m","a","i","l",","," ","s","t","a","t","u","s",",",
      " ","c","r","e","a","t","e","d","_","a","t","\n"," "," "," "," "," "," "," "," "," "," ",
      " "," ","F","R","O","M"," ","u","s","e","r","s"," ","\n"," "," "," "," "," "," "," "," ",
      " "," "," "," ","W","H","E","R","E"," ","s","t","a","t","u","s"," ","="," ","'","a","c",
      "t","i","v","e","'"," ","\n"," "," "," "," "," "," "," "," "," "," "," "," ","O","R","D",
      "E","R"," ","B","Y"," ","c","r","e","a","t","e","d","_","a","t"," ","D","E","S","C","\n",
      " "," "," "," "," "," "," "," "," "," "," "," ">>

ScriptQuery5 ==
    <<"\n"," "," "," "," "," "," "," "," "," "," "," "," ","D","E","L","E","T","E"," ","F","R",
      "O","M"," ","u","s","e","r","s"," ","\n"," "," "," "," "," "," "," "," "," "," "," "," ",
      "W","H","E","R","E"," ","s","t","a","t","u","s"," ","="," ","'","i","n","a","c","t","i",
      "v","e","'"," ","\n"," "," "," "," "," "," "," "," "," "," "," "," ","A","N","D"," ","c",
      "r","e","a","t","e","d","_","a","t"," ","<"," ","N","O","W","(",")"," ","-"," ","I","N",
      "T","E","R","V","A","L"," ","'","3","0"," ","d","a","y","s","'","\n"," "," "," "," "," ",
      " "," "," "," "," "," "," ">>

scripts ==
    <<[name |-> "create_users_table", query |-> ScriptQuery1],
      [name |-> "insert_sample_users", query |-> ScriptQuery2],
      [name |-> "update_user_status", query |-> ScriptQuery3],
      [name |-> "query_active_users", query |-> ScriptQuery4],
      [name |-> "cleanup_inactive_users", query |-> ScriptQuery5]>>

(***************************************************************************)
(* Python values.  A scalar carries its type and its text (str(v)); a dict  *)
(* is the sequence of its items in insertion order, keys unique; an         *)
(* Optional is <<>> for None and <<v>> for a value.                          *)
(***************************************************************************)
None == <<>>

Some(v) == <<v>>

\* the decimal text of a natural number, as str(n) prints it
RECURSIVE DecimalText(_)
DecimalText(n) ==
    IF n < 10 THEN <<Digits[n + 1]>>
    ELSE DecimalText(n \div 10) \o <<Digits[(n % 10) + 1]>>

PyInt(n) == [t |-> "int", v |-> DecimalText(n)]

PyStr(s) == [t |-> "str", v |-> s]

PyNone == [t |-> "NoneType", v |-> <<>>]

Item(key, value) == [k |-> key, v |-> value]

\* key in d
HasKey(d, key) == \E i \in 1..Len(d) : d[i].k = key

\* d[key], for a key of d
Lookup(d, key) == d[CHOOSE i \in 1..Len(d) : d[i].k = key].v

\* list(d.keys())
Keys(d) == [i \in 1..Len(d) |-> d[i].k]

S_id == <<"i","d">>
S_name == <<"n","a","m","e">>
S_status == <<"s","t","a","t","u","s">>
S_email == <<"e","m","a","i","l">>
S_John_Doe == <<"J","o","h","n"," ","D","o","e">>
S_Jane_Smith == <<"J","a","n","e"," ","S","m","i","t","h">>
S_Bob_Johnson == <<"B","o","b"," ","J","o","h","n","s","o","n">>
S_active == <<"a","c","t","i","v","e">>
S_inactive == <<"i","n","a","c","t","i","v","e">>
S_john_mail == <<"j","o","h","n","@","e","x","a","m","p","l","e",".","c","o","m">>
S_jane_mail == <<"j","a","n","e","@","e","x","a","m","p","l","e",".","c","o","m">>
S_bob_mail == <<"b","o","b","@","e","x","a","m","p","l","e",".","c","o","m">>

(***************************************************************************)
(* Query texts given to execute_sql_script: every concatenation of at most  *)
(* MaxClauses clauses.                                                       *)
(***************************************************************************)
C_INSERT == <<"I","N","S","E","R","T"," ","I","N","T","O"," ","t">>
C_UPDATE == <<"U","P","D","A","T","E"," ","t">>
C_DELETE == <<"D","E","L","E","T","E"," ","F","R","O","M"," ","t">>
C_SELECT_FROM == <<" ","S","E","L","E","C","T"," ","a"," ","F","R","O","M"," ","u">>
C_select_from == <<" ","s","e","l","e","c","t"," ","a"," ","f","r","o","m"," ","u">>
C_SELECT == <<" ","S","E","L","E","C","T"," ","1">>
C_CREATE == <<"C","R","E","A","T","E"," ","T","A","B","L","E"," ","t">>
C_SET_inserted == <<" ","S","E","T"," ","i","n","s","e","r","t","e","d"," ","="," ","1">>
C_WHERE_updated == <<" ","W","H","E","R","E"," ","u","p","d","a","t","e","d"," ","="," ","0">>

MaxClauses == 2

Clauses ==
    {C_INSERT, C_UPDATE, C_DELETE, C_SELECT_FROM, C_select_from, C_SELECT,
     C_CREATE, C_SET_inserted, C_WHERE_updated}

ClauseLists == UNION {[1..n -> Clauses] : n \in 0..MaxClauses}

QueryTexts == {Concat(cl) : cl \in ClauseLists}

(***************************************************************************)
(* The state.                                                               *)
(***************************************************************************)
VARIABLES
    clientUp,     \* whether Client() can be constructed (else it raises)
    secrets,      \* the names of the secrets the secret store holds
    query,        \* the query argument of the execute_sql_script calls
    lastRun,      \* the latest execute_sql_script call: <<>> before the first
    prevRun,      \* the call before the latest
    pc,           \* simple_sql_pipeline: the statement its loop is at
    idx,          \* simple_sql_pipeline: the position in scripts of `script`
    result,       \* simple_sql_pipeline: result of the current iteration
    is_valid,     \* simple_sql_pipeline: is_valid of the current iteration
    results,      \* simple_sql_pipeline: the list it returns
    executed,     \* the script names execute_sql_script was called with, in order
    now,          \* the clock: what datetime.utcnow() returns
    given,        \* the arguments the SQLQuery under study was constructed with
    rec,          \* the SQLQuery under study: <<>> before its construction
    store,        \* the artifact store: the content of sql_query.json, <<>> if none
    visuals,      \* the artifact store: the visualization files, <<>> if none
    out,          \* the latest operation on the record and what it returned
    setups,       \* the runs of setup_bigquery_secret so far, oldest first
    sample,       \* the results list given to _format_result_table
    table         \* what _format_result_table returned: <<>> before the call

envVars == <<clientUp, secrets>>

scriptVars == <<query, lastRun, prevRun>>

pipelineVars == <<pc, idx, result, is_valid, results, executed>>

recordVars == <<now, given, rec, store, visuals, out>>

tableVars == <<sample, table>>

vars == <<envVars, scriptVars, pipelineVars, recordVars, tableVars, setups>>

SecretNames == {"db_credentials", "bigquery_credentials"}

(***************************************************************************)
(* simple_sql_pipeline.py: execute_sql_script                               *)
(***************************************************************************)
\* time.sleep(0.1), in hundredths of a millisecond
SleepTime == 10000

\* the most by which the measured time exceeds the sleep, in hundredths of a ms
MaxJitter == 1

\* round((time.time() - start_time) * 1000, 2), in hundredths of a millisecond
ElapsedTimes == SleepTime..(SleepTime + MaxJitter)

\* str(e) of the exception Client() raises
ClientError == "client unavailable"

\* the verbs execute_sql_script looks for
K_SELECT == <<"S","E","L","E","C","T">>

K_INSERT == <<"I","N","S","E","R","T">>

K_UPDATE == <<"U","P","D","A","T","E">>

K_DELETE == <<"D","E","L","E","T","E">>

\* the three rows of the SELECT branch
SelectSampleData ==
    << <<Item(S_id, PyInt(1)), Item(S_name, PyStr(S_John_Doe)), Item(S_status, PyStr(S_active))>>,
       <<Item(S_id, PyInt(2)), Item(S_name, PyStr(S_Jane_Smith)), Item(S_status, PyStr(S_active))>>,
       <<Item(S_id, PyInt(3)), Item(S_name, PyStr(S_Bob_Johnson)), Item(S_status, PyStr(S_inactive))>> >>

\* MockResult with the query text tested as written, not upper-cased
MockResult_CaseSensitive(q) ==
    IF Contains(q, K_SELECT)
    THEN [rows_affected |-> 0, result_type |-> "query", sample_data |-> SelectSampleData]
    ELSE IF Contains(q, K_INSERT)
    THEN [rows_affected |-> 5, result_type |-> "insert", sample_data |-> <<>>]
    ELSE IF Contains(q, K_UPDATE)
    THEN [rows_affected |-> 12, result_type |-> "update", sample_data |-> <<>>]
    ELSE IF Contains(q, K_DELETE)
    THEN [rows_affected |-> 3, result_type |-> "delete", sample_data |-> <<>>]
    ELSE [rows_affected |-> 0, result_type |-> "unknown", sample_data |-> <<>>]

\* MockResult with the UPDATE branch tested before the INSERT branch
MockResult_UpdateFirst(q) ==
    IF Contains(Upper(q), K_SELECT)
    THEN [rows_affected |-> 0, result_type |-> "query", sample_data |-> SelectSampleData]
    ELSE IF Contains(Upper(q), K_UPDATE)
    THEN [rows_affected |-> 12, result_type |-> "update", sample_data |-> <<>>]
    ELSE IF Contains(Upper(q), K_INSERT)
    THEN [rows_affected |-> 5, result_type |-> "insert", sample_data |-> <<>>]
    ELSE IF Contains(Upper(q), K_DELETE)
    THEN [rows_affected |-> 3, result_type |-> "delete", sample_data |-> <<>>]
    ELSE [rows_affected |-> 0, result_type |-> "unknown", sample_data |-> <<>>]

\* the if/elif chain on query.upper(): rows_affected, result_type, sample_data
MockResult(q) ==
    IF Contains(Upper(q), K_SELECT)
    THEN [rows_affected |-> 0, result_type |-> "query", sample_data |-> SelectSampleData]
    ELSE IF Contains(Upper(q), K_INSERT)
    THEN [rows_affected |-> 5, result_type |-> "insert", sample_data |-> <<>>]
    ELSE IF Contains(Upper(q), K_UPDATE)
    THEN [rows_affected |-> 12, result_type |-> "update", sample_data |-> <<>>]
    ELSE IF Contains(Upper(q), K_DELETE)
    THEN [rows_affected |-> 3, result_type |-> "delete", sample_data |-> <<>>]
    ELSE [rows_affected |-> 0, result_type |-> "unknown", sample_data |-> <<>>]

\* db_secret after the inner try: the secret when get_secret returns, None when
\* it raises
GetDbSecret(held) ==
    IF "db_credentials" \in held THEN Some("db_credentials") ELSE None

\* ExecuteSqlScript without the inner try: a failed lookup reaches the catch-all
ExecuteSqlScript_SecretFatal(script_name, q, client_ok, db_secret, elapsed) ==
    IF ~client_ok \/ db_secret = None
    THEN [script_name |-> script_name,
          status |-> "error",
          error_message |-> ClientError,
          rows_affected |-> 0,
          execution_time_ms |-> 0]
    ELSE LET m == MockResult(q)
         IN  [script_name |-> script_name,
              status |-> "success",
              rows_affected |-> m.rows_affected,
              execution_time_ms |-> elapsed,
              result_type |-> m.result_type,
              sample_data |-> m.sample_data,
              query_length |-> Len(q)]

\* The dictionary execute_sql_script returns.  client_ok: Client() returned;
\* db_secret: the outcome of the credential lookup; elapsed: the measured time.
ExecuteSqlScript(script_name, q, client_ok, db_secret, elapsed) ==
    IF ~client_ok
    THEN [script_name |-> script_name,
          status |-> "error",
          error_message |-> ClientError,
          rows_affected |-> 0,
          execution_time_ms |-> 0]
    ELSE LET m == MockResult(q)
         IN  [script_name |-> script_name,
              status |-> "success",
              rows_affected |-> m.rows_affected,
              execution_time_ms |-> elapsed,
              result_type |-> m.result_type,
              sample_data |-> m.sample_data,
              query_length |-> Len(q)]

\* One call of the step on the query under study.
RunScript ==
    \E elapsed \in ElapsedTimes :
        LET db_secret == IF clientUp THEN GetDbSecret(secrets) ELSE None
        IN  /\ lastRun' = Some([client_ok |-> clientUp,
                                db_secret |-> db_secret,
                                result |-> ExecuteSqlScript("script", query, clientUp,
                                                            db_secret, elapsed)])
            /\ prevRun' = lastRun
            /\ UNCHANGED <<envVars, query, pipelineVars, recordVars, tableVars, setups>>

(***************************************************************************)
(* The environment: the secret store gains or loses a secret, the client    *)
(* becomes unavailable or available again.                                   *)
(***************************************************************************)
StoreSecret ==
    \E s \in SecretNames \ secrets :
        /\ secrets' = secrets \cup {s}
        /\ UNCHANGED <<clientUp, scriptVars, pipelineVars, recordVars, tableVars, setups>>

DropSecret ==
    \E s \in secrets :
        /\ secrets' = secrets \ {s}
        /\ UNCHANGED <<clientUp, scriptVars, pipelineVars, recordVars, tableVars, setups>>

ClientChange ==
    /\ clientUp' = ~clientUp
    /\ UNCHANGED <<secrets, scriptVars, pipelineVars, recordVars, tableVars, setups>>

\* no SQLQuery constructed yet, nothing stored, nothing called
RecordIdle ==
    /\ now = [second |-> 0, microsecond |-> 0]
    /\ given = <<>>
    /\ rec = <<>>
    /\ store = <<>>
    /\ visuals = <<>>
    /\ out = [op |-> "none"]

\* setup_bigquery_secret not run
SetupIdle == setups = <<>>

\* _format_result_table not called
TableIdle ==
    /\ sample = <<>>
    /\ table = <<>>

\* execute_sql_script not called
ScriptIdle ==
    /\ query = <<>>
    /\ lastRun = <<>>
    /\ prevRun = <<>>

\* simple_sql_pipeline not started: its locals before the loop
PipelineIdle ==
    /\ pc = "idle"
    /\ idx = 1
    /\ result = None
    /\ is_valid = None
    /\ results = <<>>
    /\ executed = <<>>

InitScript ==
    /\ clientUp \in BOOLEAN
    /\ secrets \in SUBSET SecretNames
    /\ query \in QueryTexts
    /\ lastRun = None
    /\ prevRun = None
    /\ PipelineIdle
    /\ RecordIdle
    /\ TableIdle
    /\ SetupIdle

NextScript == RunScript \/ StoreSecret \/ DropSecret \/ ClientChange

SpecScript == InitScript /\ [][NextScript]_vars

(***************************************************************************)
(* Properties of execute_sql_script                                         *)
(***************************************************************************)
\* s.startswith(prefix)
StartsWith(s, prefix) ==
    Len(s) >= Len(prefix) /\ SubSeq(s, 1, Len(prefix)) = prefix

K_FROM == <<"F","R","O","M">>

\* the text holds SELECT and, after it, FROM, in any letter case
ContainsSelectFrom(q) ==
    LET u == Upper(q)
    IN  \E i \in 1..(Len(u) - 5) :
            /\ SubSeq(u, i, i + 5) = K_SELECT
            /\ Contains(SubSeq(u, i + 6, Len(u)), K_FROM)

LastResult == lastRun[1].result

\* the latest call reached the mock execution (no exception reached the catch-all)
LastSucceeded == lastRun # None /\ LastResult.status = "success"

S_INSERT_INTO == K_INSERT \o <<" ","I","N","T","O"," ">>

\* C3 (as stated, for the calls that reach the mock execution): a text beginning
\* "INSERT INTO " gives rows_affected 5 and an empty sample_data, one beginning
\* "UPDATE " gives 12, one beginning "DELETE " gives 3, whatever follows the
\* leading verb.
C3_LeadingVerbDecides ==
    LastSucceeded =>
        /\ StartsWith(query, S_INSERT_INTO) =>
               LastResult.rows_affected = 5 /\ LastResult.sample_data = <<>>
        /\ StartsWith(query, K_UPDATE \o <<" ">>) => LastResult.rows_affected = 12
        /\ StartsWith(query, K_DELETE \o <<" ">>) => LastResult.rows_affected = 3

\* C3 (amended): in a call in which Client() is constructed, a text beginning
\* "INSERT INTO " that does not hold SELECT (in any letter case) gives
\* rows_affected 5 and an empty sample_data; one beginning "UPDATE " that holds
\* neither SELECT nor INSERT gives 12; one beginning "DELETE " that holds none of
\* SELECT, INSERT, UPDATE gives 3.
C3_LeadingVerbUnlessEarlierBranch ==
    (lastRun # None /\ lastRun[1].client_ok) =>
        LET upper == Upper(query)
            select == Contains(upper, K_SELECT)
            insert == Contains(upper, K_INSERT)
            update == Contains(upper, K_UPDATE)
        IN  /\ (StartsWith(query, S_INSERT_INTO) /\ ~select) =>
                   LastResult.rows_affected = 5 /\ LastResult.sample_data = <<>>
            /\ (StartsWith(query, K_UPDATE \o <<" ">>) /\ ~select /\ ~insert) =>
                   LastResult.rows_affected = 12
            /\ (StartsWith(query, K_DELETE \o <<" ">>) /\ ~select /\ ~insert /\ ~update) =>
                   LastResult.rows_affected = 3

\* an INSERT whose text also holds UPDATE, executed with a working client
C3_Witness ==
    /\ lastRun # None
    /\ lastRun[1].client_ok
    /\ query = C_INSERT \o C_WHERE_updated
    /\ LastResult.rows_affected = 5

\* the keys of every row are exactly id, name, status
RowsHaveKeys(rows, keys) == \A i \in 1..Len(rows) : Keys(rows[i]) = keys

IsSelectResult(r) ==
    /\ r.status = "success"
    /\ r.result_type = "query"
    /\ r.rows_affected = 0
    /\ r.sample_data = SelectSampleData
    /\ Len(r.sample_data) = 3
    /\ RowsHaveKeys(r.sample_data, <<S_id, S_name, S_status>>)

\* C4 (as stated): every call on a text containing SELECT ... FROM ... returns
\* status "success", result_type "query", rows_affected 0 and the 3 fixed rows.
C4_SelectFromAlwaysQuery ==
    (lastRun # None /\ ContainsSelectFrom(query)) => IsSelectResult(LastResult)

\* C4 (amended): on a text containing SELECT ... FROM ... in any letter case, a
\* call in which Client() is constructed returns status "success", result_type
\* "query", rows_affected 0 and the 3 fixed rows with keys id, name, status; a
\* call in which Client() raises returns status "error" and rows_affected 0.
C4_SelectFromQueryWhenClientUp ==
    (lastRun # None /\ ContainsSelectFrom(query)) =>
        IF lastRun[1].client_ok
        THEN IsSelectResult(LastResult)
        ELSE LastResult.status = "error" /\ LastResult.rows_affected = 0

C4_Witness ==
    /\ lastRun # None
    /\ lastRun[1].client_ok
    /\ query = C_INSERT \o C_select_from

\* the credential lookup of a call failed: Client() returned and get_secret raised
LookupFailed(run) == run.client_ok /\ run.db_secret = None

LookupSucceeded(run) == run.client_ok /\ run.db_secret # None

\* C10: a call whose credential lookup fails returns status "success", and its
\* result_type, rows_affected and sample_data equal those of a call on the same
\* text whose lookup succeeds.
C10_LookupFailureKeepsData ==
    /\ (lastRun # None /\ LookupFailed(lastRun[1])) => LastResult.status = "success"
    /\ (/\ lastRun # None
        /\ prevRun # None
        /\ LookupFailed(lastRun[1]) # LookupFailed(prevRun[1])
        /\ lastRun[1].client_ok
        /\ prevRun[1].client_ok) =>
            /\ LastResult.status = prevRun[1].result.status
            /\ LastResult.result_type = prevRun[1].result.result_type
            /\ LastResult.rows_affected = prevRun[1].result.rows_affected
            /\ LastResult.sample_data = prevRun[1].result.sample_data

C10_Witness ==
    /\ lastRun # None
    /\ prevRun # None
    /\ LookupFailed(lastRun[1])
    /\ LookupSucceeded(prevRun[1])
    /\ LastResult.execution_time_ms # prevRun[1].result.execution_time_ms
    /\ LastResult.result_type = "update"

(***************************************************************************)
(* simple_sql_pipeline.py: validate_results and simple_sql_pipeline.  The   *)
(* step and pipeline decorators are taken as the spec takes them: the       *)
(* runtime calls the steps in the order written and hands each return value *)
(* to the caller.                                                            *)
(***************************************************************************)
\* validate_results(results)
ValidateResults(r) == r.status = "success"

\* results = []; the for loop takes the first script
PipelineStart ==
    /\ pc = "idle"
    /\ results' = <<>>
    /\ idx' = 1
    /\ pc' = IF Len(scripts) >= 1 THEN "execute" ELSE "done"
    /\ UNCHANGED <<envVars, scriptVars, result, is_valid, executed, recordVars, tableVars, setups>>

\* result = execute_sql_script(script["name"], script["query"])
PipelineExecute ==
    /\ pc = "execute"
    /\ \E elapsed \in ElapsedTimes :
           LET db_secret == IF clientUp THEN GetDbSecret(secrets) ELSE None
           IN  result' = Some(ExecuteSqlScript(scripts[idx].name, scripts[idx].query,
                                               clientUp, db_secret, elapsed))
    /\ executed' = Append(executed, scripts[idx].name)
    /\ pc' = "validate"
    /\ UNCHANGED <<envVars, scriptVars, idx, is_valid, results, recordVars, tableVars, setups>>

\* is_valid = validate_results(result)
PipelineValidate ==
    /\ pc = "validate"
    /\ is_valid' = Some(ValidateResults(result[1]))
    /\ pc' = "append"
    /\ UNCHANGED <<envVars, scriptVars, idx, result, results, executed, recordVars, tableVars, setups>>

\* PipelineAppend without the break: the loop goes on after a failed validation
PipelineAppend_NoBreak ==
    /\ pc = "append"
    /\ results' = Append(results, result[1])
    /\ IF idx < Len(scripts)
       THEN pc' = "execute" /\ idx' = idx + 1
       ELSE pc' = "done" /\ idx' = idx
    /\ UNCHANGED <<envVars, scriptVars, result, is_valid, executed, recordVars, tableVars, setups>>

\* results.append(result); if not is_valid: break; else the next script, or the
\* end of the loop and return results
PipelineAppend ==
    /\ pc = "append"
    /\ results' = Append(results, result[1])
    /\ IF ~is_valid[1]
       THEN pc' = "done" /\ idx' = idx
       ELSE IF idx < Len(scripts)
       THEN pc' = "execute" /\ idx' = idx + 1
       ELSE pc' = "done" /\ idx' = idx
    /\ UNCHANGED <<envVars, scriptVars, result, is_valid, executed, recordVars, tableVars, setups>>

InitPipeline ==
    /\ clientUp \in BOOLEAN
    /\ secrets \in SUBSET SecretNames
    /\ ScriptIdle
    /\ PipelineIdle
    /\ RecordIdle
    /\ TableIdle
    /\ SetupIdle

NextPipeline ==
    \/ PipelineStart
    \/ PipelineExecute
    \/ PipelineValidate
    \/ PipelineAppend
    \/ StoreSecret
    \/ DropSecret
    \/ ClientChange

SpecPipeline == InitPipeline /\ [][NextPipeline]_vars

(***************************************************************************)
(* Properties of simple_sql_pipeline                                        *)
(***************************************************************************)
ScriptNames == [i \in 1..Len(scripts) |-> scripts[i].name]

Failed(r) == r.status # "success"

\* C2: the scripts are executed one at a time in declared order; the results
\* list holds the results of the executed scripts in that order; a failed result
\* is the last entry, ends the run, and no script after it is executed: when the
\* k-th script is the first to fail, exactly k scripts are executed and the
\* returned list has k entries, the k-th being the failed one.
C2_StopOnFirstFailure ==
    /\ executed = SubSeq(ScriptNames, 1, Len(executed))
    /\ Len(results) <= Len(executed)
    /\ Len(executed) <= Len(results) + 1
    /\ \A j \in 1..Len(results) : results[j].script_name = scripts[j].name
    /\ \A j \in 1..(Len(results) - 1) : ~Failed(results[j])
    /\ \A j \in 1..Len(results) :
           Failed(results[j]) => pc = "done" /\ Len(executed) = j /\ Len(results) = j
    /\ pc = "done" =>
           /\ Len(executed) = Len(results)
           /\ Failed(results[Len(results)]) \/ Len(results) = Len(scripts)

\* five scripts, the fourth fails: four processed, the fifth never executed
C2_Witness ==
    /\ pc = "done"
    /\ Len(results) = 4
    /\ Failed(results[4])
    /\ executed = SubSeq(ScriptNames, 1, 4)

(***************************************************************************)
(* datetime.  The clock is followed through one minute of one day: a       *)
(* datetime is its second and microsecond, the date, hour and minute being  *)
(* those of DatePrefix.                                                     *)
(***************************************************************************)
IsoPrefix == <<"2","0","2","4","-","0","1","-","0","1","T","0","0",":","0","0",":">>
StampPrefix == <<"2","0","2","4","0","1","0","1","_","0","0","0","0">>
S_query_ == <<"q","u","e","r","y","_">>
S_None == <<"N","o","n","e">>
S_True == <<"T","r","u","e">>
S_False == <<"F","a","l","s","e">>
S_CommaSpace == <<","," ">>

(* texts used as field values *)
N_report == <<"r","e","p","o","r","t">>
D_daily == <<"d","a","i","l","y"," ","t","o","t","a","l","s">>
P_limit == <<"l","i","m","i","t">>
P_start_date == <<"s","t","a","r","t","_","d","a","t","e">>
P_date == <<"2","0","2","3","-","0","1","-","0","1">>
P_region == <<"r","e","g","i","o","n">>
Q_select == <<"S","E","L","E","C","T"," ","a"," ","F","R","O","M"," ","u">>
Q_insert ==
    <<"i","n","s","e","r","t"," ","i","n","t","o"," ","t"," ","v","a","l","u","e","s"," ","(",
      "1",")">>
T_yesterday == <<"y","e","s","t","e","r","d","a","y">>

MaxSecond == 1

\* the microsecond values the clock is observed at
Microseconds == {0, 120000}

Times == [second : 0..MaxSecond, microsecond : Microseconds]

Before(a, b) ==
    \/ a.second < b.second
    \/ a.second = b.second /\ a.microsecond < b.microsecond

\* "%02d" % n
TwoDigits(n) == <<Digits[(n \div 10) + 1], Digits[(n % 10) + 1]>>

\* s.rjust(width, "0")
RECURSIVE ZeroPad(_, _)
ZeroPad(s, width) == IF Len(s) >= width THEN s ELSE ZeroPad(<<"0">> \o s, width)

\* IsoFormat keeping whole seconds only
IsoFormat_Seconds(dt) == IsoPrefix \o TwoDigits(dt.second)

\* datetime.isoformat(): the fraction is printed when the microsecond is not 0
IsoFormat(dt) ==
    IsoPrefix \o TwoDigits(dt.second) \o
        (IF dt.microsecond = 0 THEN <<>>
         ELSE <<".">> \o ZeroPad(DecimalText(dt.microsecond), 6))

\* datetime.strftime('%Y%m%d_%H%M%S')
StrfTime(dt) == StampPrefix \o TwoDigits(dt.second)

AllDigits(s) == \A i \in 1..Len(s) : \E d \in 1..10 : Digits[d] = s[i]

DigitValue(c) == (CHOOSE d \in 1..10 : Digits[d] = c) - 1

\* int(s) of a text of digits
RECURSIVE ParseInt(_)
ParseInt(s) ==
    IF s = <<>> THEN 0
    ELSE ParseInt(SubSeq(s, 1, Len(s) - 1)) * 10 + DigitValue(s[Len(s)])

\* datetime.fromisoformat(s): the datetime, or ValueError for a text that is not
\* of the form isoformat() prints
FromIsoFormat(s) ==
    LET n == Len(IsoPrefix)
        wellFormed ==
            /\ Len(s) \in {n + 2, n + 9}
            /\ SubSeq(s, 1, n) = IsoPrefix
            /\ AllDigits(SubSeq(s, n + 1, n + 2))
            /\ ParseInt(SubSeq(s, n + 1, n + 2)) <= 59
            /\ Len(s) = n + 9 => s[n + 3] = "." /\ AllDigits(SubSeq(s, n + 4, n + 9))
    IN  IF wellFormed
        THEN [ok |-> TRUE,
              value |-> [second |-> ParseInt(SubSeq(s, n + 1, n + 2)),
                         microsecond |-> IF Len(s) = n + 2 THEN 0
                                         ELSE ParseInt(SubSeq(s, n + 4, n + 9))]]
        ELSE [ok |-> FALSE, error |-> "ValueError"]

(***************************************************************************)
(* sql_executor.py: SQLQuery, its construction and its dictionary form      *)
(***************************************************************************)
\* PostInit that leaves an omitted name None
PostInit_NoDefaultName(args, clock) ==
    [query |-> args.query,
     name |-> args.name,
     description |-> args.description,
     parameters |-> args.parameters,
     created_at |-> IF args.created_at = None THEN Some(clock) ELSE args.created_at]

\* SQLQuery(query, name, description, parameters, created_at): the dataclass
\* fields after __post_init__; clock is what datetime.utcnow() returns
PostInit(args, clock) ==
    LET created_at == IF args.created_at = None THEN Some(clock) ELSE args.created_at
    IN  [query |-> args.query,
         name |-> IF args.name = None
                  THEN Some(S_query_ \o StrfTime(created_at[1]))
                  ELSE args.name,
         description |-> args.description,
         parameters |-> args.parameters,
         created_at |-> created_at]

\* SQLQuery.to_dict
ToDict(r) ==
    [query |-> r.query,
     name |-> r.name,
     description |-> r.description,
     parameters |-> r.parameters,
     created_at |-> IF r.created_at # None THEN Some(IsoFormat(r.created_at[1])) ELSE None]

\* data.get(key)
Get(data, key) == IF key \in DOMAIN data THEN data[key] ELSE None

\* bool(v) of an Optional str and of an Optional dict: false for None, "" and {}
Truthy(opt) == opt # None /\ opt[1] # <<>>

\* FromDict reading the query with data.get
FromDict_QueryOptional(data, clock) ==
    LET raw == Get(data, "created_at")
    IN  IF Truthy(raw) /\ ~FromIsoFormat(raw[1]).ok
        THEN [ok |-> FALSE, error |-> "ValueError"]
        ELSE [ok |-> TRUE,
              value |-> PostInit([query |-> IF "query" \in DOMAIN data
                                            THEN data["query"] ELSE <<>>,
                                  name |-> Get(data, "name"),
                                  description |-> Get(data, "description"),
                                  parameters |-> Get(data, "parameters"),
                                  created_at |-> IF Truthy(raw)
                                                 THEN Some(FromIsoFormat(raw[1]).value)
                                                 ELSE None],
                                 clock)]

\* SQLQuery.from_dict: the record, or the exception raised
FromDict(data, clock) ==
    LET raw == Get(data, "created_at")
    IN  IF Truthy(raw) /\ ~FromIsoFormat(raw[1]).ok
        THEN [ok |-> FALSE, error |-> "ValueError"]
        ELSE IF "query" \notin DOMAIN data
        THEN [ok |-> FALSE, error |-> "KeyError"]
        ELSE [ok |-> TRUE,
              value |-> PostInit([query |-> data["query"],
                                  name |-> Get(data, "name"),
                                  description |-> Get(data, "description"),
                                  parameters |-> Get(data, "parameters"),
                                  created_at |-> IF Truthy(raw)
                                                 THEN Some(FromIsoFormat(raw[1]).value)
                                                 ELSE None],
                                 clock)]

(***************************************************************************)
(* json.dump / json.load: Python values to JSON values and back.  A JSON    *)
(* scalar is its kind and its text; an object is the sequence of its        *)
(* members.                                                                  *)
(***************************************************************************)
PyBool(b) == [t |-> "bool", v |-> IF b THEN S_True ELSE S_False]

JNull == [j |-> "null", s |-> <<>>]

JString(s) == [j |-> "string", s |-> s]

JNumber(text) == [j |-> "number", s |-> text]

\* the JSON value json.dump writes for a scalar
PyToJson(v) ==
    CASE v.t = "int" -> JNumber(v.v)
      [] v.t = "str" -> JString(v.v)
      [] v.t = "bool" -> [j |-> IF v.v = S_True THEN "true" ELSE "false", s |-> <<>>]
      [] v.t = "NoneType" -> JNull

\* the Python value json.load builds from a JSON scalar
JsonToPy(jv) ==
    CASE jv.j = "number" -> [t |-> "int", v |-> DecimalText(ParseInt(jv.s))]
      [] jv.j = "string" -> PyStr(jv.s)
      [] jv.j = "true" -> PyBool(TRUE)
      [] jv.j = "false" -> PyBool(FALSE)
      [] jv.j = "null" -> PyNone

OptStrToJson(o) == IF o = None THEN JNull ELSE JString(o[1])

JsonToOptStr(jv) == IF jv.j = "null" THEN None ELSE Some(jv.s)

OptDictToJson(o) ==
    IF o = None THEN [j |-> "null", members |-> <<>>]
    ELSE [j |-> "object",
          members |-> [i \in 1..Len(o[1]) |-> Item(o[1][i].k, PyToJson(o[1][i].v))]]

JsonToOptDict(jv) ==
    IF jv.j = "null" THEN None
    ELSE Some([i \in 1..Len(jv.members) |->
                   Item(jv.members[i].k, JsonToPy(jv.members[i].v))])

\* json.dump(data.to_dict(), f, indent=2): the document written
JsonDump(d) ==
    [query |-> JString(d.query),
     name |-> OptStrToJson(d.name),
     description |-> OptStrToJson(d.description),
     parameters |-> OptDictToJson(d.parameters),
     created_at |-> OptStrToJson(d.created_at)]

\* json.load(f): the dictionary read
JsonLoad(doc) ==
    [query |-> doc.query.s,
     name |-> JsonToOptStr(doc.name),
     description |-> JsonToOptStr(doc.description),
     parameters |-> JsonToOptDict(doc.parameters),
     created_at |-> JsonToOptStr(doc.created_at)]

(***************************************************************************)
(* The operations on the record under study                                 *)
(***************************************************************************)
RecordQueries == {Q_select, Q_insert}

ParameterChoices ==
    {None,
     Some(<<>>),
     Some(<<Item(P_limit, PyInt(100))>>),
     Some(<<Item(P_start_date, PyStr(P_date)), Item(P_limit, PyInt(7)),
            Item(P_region, PyNone)>>),
     Some(<<Item(P_region, PyBool(TRUE)), Item(P_limit, PyStr(<<"7">>))>>)}

ConstructorArgs ==
    [query : RecordQueries,
     name : {None, Some(<<>>), Some(N_report)},
     description : {None, Some(D_daily)},
     parameters : ParameterChoices,
     created_at : {None} \cup {Some(t) : t \in Times}]

\* time passes
Tick ==
    /\ \E t \in Times : Before(now, t) /\ now' = t
    /\ UNCHANGED <<envVars, scriptVars, pipelineVars, tableVars, visuals, given, rec, store, out, setups>>

\* r = SQLQuery(...)
Construct ==
    /\ rec = None
    /\ \E args \in ConstructorArgs :
           /\ given' = Some(args)
           /\ rec' = Some(PostInit(args, now))
    /\ UNCHANGED <<envVars, scriptVars, pipelineVars, tableVars, visuals, now, store, out, setups>>

\* r.to_dict()
CallToDict ==
    /\ rec # None
    /\ out' = [op |-> "to_dict", data |-> ToDict(rec[1])]
    /\ UNCHANGED <<envVars, scriptVars, pipelineVars, tableVars, visuals, now, given, rec, store, setups>>

\* SQLQuery.from_dict(d), d the dictionary to_dict just returned
CallFromDict ==
    /\ out.op = "to_dict"
    /\ out' = [op |-> "from_dict", origin |-> "to_dict", data |-> out.data,
               outcome |-> FromDict(out.data, now)]
    /\ UNCHANGED <<envVars, scriptVars, pipelineVars, tableVars, visuals, now, given, rec, store, setups>>

\* SQLQueryMaterializer.save(r)
Save ==
    /\ rec # None
    /\ store' = Some(JsonDump(ToDict(rec[1])))
    /\ out' = [op |-> "save"]
    /\ UNCHANGED <<envVars, scriptVars, pipelineVars, tableVars, visuals, now, given, rec, setups>>

\* SQLQueryMaterializer.load(SQLQuery): open() raises when save wrote no file
Load ==
    /\ out' = [op |-> "load",
               outcome |-> IF store = None
                           THEN [ok |-> FALSE, error |-> "FileNotFoundError"]
                           ELSE FromDict(JsonLoad(store[1]), now)]
    /\ UNCHANGED <<envVars, scriptVars, pipelineVars, tableVars, visuals, now, given, rec, store, setups>>

InitRecord ==
    /\ clientUp = TRUE
    /\ secrets = {}
    /\ ScriptIdle
    /\ PipelineIdle
    /\ RecordIdle
    /\ TableIdle
    /\ SetupIdle

(***************************************************************************)
(* from_dict on dictionaries that to_dict did not write                     *)
(***************************************************************************)
FieldNames == {"query", "name", "description", "parameters", "created_at"}

FullDicts ==
    [query : {Q_select},
     name : {None, Some(N_report)},
     description : {Some(D_daily)},
     parameters : {None, Some(<<Item(P_limit, PyInt(100))>>)},
     created_at : {None, Some(<<>>), Some(T_yesterday)}
                      \cup {Some(IsoFormat(t)) : t \in Times}]

\* the dictionary with the keys of S only
Restrict(d, S) == [k \in S |-> d[k]]

GivenDicts == {Restrict(d, S) : d \in FullDicts, S \in SUBSET FieldNames}

\* SQLQuery.from_dict(data)
CallFromDictGiven ==
    /\ \E data \in GivenDicts :
           out' = [op |-> "from_dict", origin |-> "given", data |-> data,
                   outcome |-> FromDict(data, now)]
    /\ UNCHANGED <<envVars, scriptVars, pipelineVars, tableVars, visuals, now, given, rec, store, setups>>

NextFromDict == Tick \/ CallFromDictGiven

SpecFromDict == InitRecord /\ [][NextFromDict]_vars

(***************************************************************************)
(* Properties of SQLQuery and of its codec                                  *)
(***************************************************************************)
\* the record an operation returned has the five fields of r
SameFields(outcome, r) ==
    /\ outcome.ok
    /\ outcome.value.query = r.query
    /\ outcome.value.name = r.name
    /\ outcome.value.description = r.description
    /\ outcome.value.parameters = r.parameters
    /\ outcome.value.created_at = r.created_at

\* C1: from_dict(r.to_dict()) has the query, name, description, parameters and
\* created_at of r, and so has load() after save(r), for every record r whose
\* parameters are None or a dictionary of JSON scalars.
C1_RoundTrip ==
    /\ (out.op = "from_dict" /\ out.origin = "to_dict") => SameFields(out.outcome, rec[1])
    /\ (out.op = "load" /\ store # None) => SameFields(out.outcome, rec[1])

\* load after save, later than the construction, of a record whose name and
\* created_at were filled in by construction, created in a fraction of a second
C1_Witness ==
    /\ out.op = "load"
    /\ store # None
    /\ given[1].name = None
    /\ given[1].created_at = None
    /\ rec[1].created_at[1].microsecond # 0
    /\ rec[1].created_at[1] # now
    /\ rec[1].parameters # None
    /\ Len(rec[1].parameters[1]) = 3

\* C5: from_dict raises, and returns no record, whenever the dictionary has no
\* "query" key, whatever other keys it has; it returns a record when "query" is
\* the only key.
C5_QueryRequired ==
    (out.op = "from_dict" /\ out.origin = "given") =>
        /\ "query" \notin DOMAIN out.data => ~out.outcome.ok
        /\ DOMAIN out.data = {"query"} =>
               out.outcome.ok /\ out.outcome.value.query = out.data["query"]

\* a dictionary with every key but "query", its created_at well formed
C5_Witness ==
    /\ out.op = "from_dict"
    /\ out.origin = "given"
    /\ DOMAIN out.data = FieldNames \ {"query"}
    /\ out.data["created_at"] = Some(IsoFormat([second |-> 1, microsecond |-> 120000]))
    /\ out.outcome = [ok |-> FALSE, error |-> "KeyError"]

\* C6 (as stated): after construction name is a non-empty string and created_at
\* is set.
C6_NameNonEmpty ==
    rec # None =>
        /\ rec[1].name # None
        /\ rec[1].name[1] # <<>>
        /\ rec[1].created_at # None

\* C6 (amended): after construction created_at is set and name is a string: the
\* non-empty "query_" followed by the timestamp of created_at when the name was
\* omitted, the supplied name, unchanged, when one was supplied (so an empty
\* supplied name stays empty).
C6_NameSetAndDefaulted ==
    rec # None =>
        /\ rec[1].created_at # None
        /\ rec[1].name # None
        /\ given[1].created_at = None => rec[1].created_at[1] \in Times
        /\ given[1].created_at # None => rec[1].created_at = given[1].created_at
        /\ given[1].name = None =>
               /\ rec[1].name[1] # <<>>
               /\ StartsWith(rec[1].name[1], S_query_)
               /\ Len(rec[1].name[1]) = Len(S_query_) + 15
        /\ given[1].name # None => rec[1].name = given[1].name

\* constructed with neither name nor created_at, at a time other than the start
C6_Witness ==
    /\ rec # None
    /\ given[1].name = None
    /\ given[1].created_at = None
    /\ rec[1].created_at[1] = [second |-> 1, microsecond |-> 120000]
    /\ rec[1].name[1] = S_query_ \o StampPrefix \o <<"0", "1">>

(***************************************************************************)
(* sql_executor.py: SQLQuery.execute, mock=True                             *)
(***************************************************************************)
StrPrefix == <<"2","0","2","4","-","0","1","-","0","1"," ","0","0",":","0","0",":">>
S_success == <<"s","u","c","c","e","s","s">>
S_error == <<"e","r","r","o","r">>
S_unknown == <<"u","n","k","n","o","w","n">>
W_WITH == <<"W","I","T","H"," ","c"," ","A","S"," ","(","x",")">>
W_OVER == <<" ","O","V","E","R"," ","(","y",")">>
W_JOIN == <<" ","J","O","I","N"," ","v">>
W_left_join == <<" ","l","e","f","t"," ","j","o","i","n"," ","w">>
W_REORDER_BY == <<" ","R","E","O","R","D","E","R"," ","B","Y"," ","a">>
W_dense_rank == <<" ","d","e","n","s","e","_","r","a","n","k","(",")">>
W_users == <<" ","u","s","e","r","s">>

\* hash(query): a value that the query text determines within one process
Hash(q) == [hash_of |-> q]

\* str(hash(query))
HashText(q) == <<"#">> \o q

\* str(dt)
StrDatetime(dt) ==
    StrPrefix \o TwoDigits(dt.second) \o
        (IF dt.microsecond = 0 THEN <<>>
         ELSE <<".">> \o ZeroPad(DecimalText(dt.microsecond), 6))

\* the rows of result_preview
MockResultPreview ==
    << <<Item(S_id, PyInt(1)), Item(S_name, PyStr(S_John_Doe)), Item(S_email, PyStr(S_john_mail))>>,
       <<Item(S_id, PyInt(2)), Item(S_name, PyStr(S_Jane_Smith)), Item(S_email, PyStr(S_jane_mail))>>,
       <<Item(S_id, PyInt(3)), Item(S_name, PyStr(S_Bob_Johnson)), Item(S_email, PyStr(S_bob_mail))>> >>

MockRowsAffected == 42

MockExecutionTimeMs == 150

\* _mock_execute with rows_affected taken from the statement's verb
MockExecute_ByVerb(r, clock) ==
    [status |-> "success",
     rows_affected |-> IF Contains(Upper(r.query), K_INSERT) THEN 5 ELSE MockRowsAffected,
     execution_time_ms |-> MockExecutionTimeMs,
     result_preview |-> MockResultPreview,
     metadata |-> [query_hash |-> Hash(r.query), executed_at |-> IsoFormat(clock)]]

\* SQLQuery._mock_execute; clock is what datetime.utcnow() returns
MockExecute(r, clock) ==
    [status |-> "success",
     rows_affected |-> MockRowsAffected,
     execution_time_ms |-> MockExecutionTimeMs,
     result_preview |-> MockResultPreview,
     metadata |-> [query_hash |-> Hash(r.query), executed_at |-> IsoFormat(clock)]]

(***************************************************************************)
(* sql_materializer.py: extract_metadata, _extract_sql_keywords,            *)
(* _generate_csv_metadata                                                   *)
(***************************************************************************)
\* the loop of _extract_sql_keywords from the i-th vocabulary entry on
RECURSIVE KeywordLoop(_, _, _)
KeywordLoop(i, text, found_keywords) ==
    IF i > Len(sql_keywords) THEN found_keywords
    ELSE KeywordLoop(i + 1, text,
                     IF Contains(text, sql_keywords[i])
                     THEN Append(found_keywords, sql_keywords[i])
                     ELSE found_keywords)

\* ExtractSqlKeywords matching the query text as written, not upper-cased
ExtractSqlKeywords_CaseSensitive(q) == KeywordLoop(1, q, <<>>)

\* SQLQueryMaterializer._extract_sql_keywords(query)
ExtractSqlKeywords(q) == KeywordLoop(1, Upper(q), <<>>)

\* sep.join(parts)
RECURSIVE Join(_, _)
Join(sep, parts) ==
    IF parts = <<>> THEN <<>>
    ELSE IF Len(parts) = 1 THEN parts[1]
    ELSE parts[1] \o sep \o Join(sep, Tail(parts))

\* HasParameters testing `is not None` in place of the truth value
HasParameters_IsNotNone(r) == r.parameters # None

\* bool(data.parameters)
HasParameters(r) == Truthy(r.parameters)

\* len(data.parameters) if data.parameters else 0
ParameterCount(r) == IF Truthy(r.parameters) THEN Len(r.parameters[1]) ELSE 0

\* SQLQueryMaterializer.extract_metadata(data)
ExtractMetadata(r, clock) ==
    LET execution_result == MockExecute(r, clock)
        metadata ==
            [query_name |-> r.name,
             query_length |-> Len(r.query),
             query_hash |-> HashText(r.query),
             has_parameters |-> HasParameters(r),
             parameter_count |-> ParameterCount(r),
             execution_status |-> execution_result.status,
             rows_affected |-> execution_result.rows_affected,
             execution_time_ms |-> execution_result.execution_time_ms,
             created_at |-> IF r.created_at # None
                            THEN Some(IsoFormat(r.created_at[1])) ELSE None]
        described ==
            IF Truthy(r.description)
            THEN metadata @@ [description |-> r.description[1]]
            ELSE metadata
        found == ExtractSqlKeywords(r.query)
    IN  IF found # <<>>
        THEN described @@ [sql_keywords |-> Join(S_CommaSpace, found)]
        ELSE described

\* str(status)
StatusText(s) ==
    CASE s = "success" -> S_success
      [] s = "error" -> S_error
      [] OTHER -> S_unknown

\* str(name) of an Optional str
OptText(o) == IF o = None THEN S_None ELSE o[1]

\* SQLQueryMaterializer._generate_csv_metadata(data): the lines after the header
\* "attribute,value", each written as attribute, comma, value
GenerateCsvMetadata(r, clock) ==
    LET execution_result == MockExecute(r, clock)
    IN  <<Item("name", OptText(r.name)),
          Item("query_length", DecimalText(Len(r.query))),
          Item("query_hash", HashText(r.query)),
          Item("created_at", IF r.created_at = None THEN S_None
                             ELSE StrDatetime(r.created_at[1])),
          Item("execution_status", StatusText(execution_result.status)),
          Item("rows_affected", DecimalText(execution_result.rows_affected)),
          Item("execution_time_ms", DecimalText(execution_result.execution_time_ms)),
          Item("has_parameters", IF HasParameters(r) THEN S_True ELSE S_False),
          Item("parameter_count", DecimalText(ParameterCount(r)))>>

\* materializer._extract_sql_keywords(r.query)
CallExtractSqlKeywords ==
    /\ rec # None
    /\ out' = [op |-> "_extract_sql_keywords", found |-> ExtractSqlKeywords(rec[1].query)]
    /\ UNCHANGED <<envVars, scriptVars, pipelineVars, tableVars, visuals, now, given, rec, store, setups>>

\* materializer.extract_metadata(r)
CallExtractMetadata ==
    /\ rec # None
    /\ out' = [op |-> "extract_metadata", metadata |-> ExtractMetadata(rec[1], now)]
    /\ UNCHANGED <<envVars, scriptVars, pipelineVars, tableVars, visuals, now, given, rec, store, setups>>

\* materializer._generate_csv_metadata(r)
CallGenerateCsvMetadata ==
    /\ rec # None
    /\ out' = [op |-> "_generate_csv_metadata", lines |-> GenerateCsvMetadata(rec[1], now)]
    /\ UNCHANGED <<envVars, scriptVars, pipelineVars, tableVars, visuals, now, given, rec, store, setups>>

(***************************************************************************)
(* Records whose query text is any concatenation of at most                 *)
(* MaxKeywordClauses clauses                                                 *)
(***************************************************************************)
MaxKeywordClauses == 3

KeywordClauses ==
    {W_WITH, W_OVER, W_JOIN, W_left_join, W_REORDER_BY, W_dense_rank, W_users}

KeywordTexts ==
    {Concat(cl) : cl \in UNION {[1..n -> KeywordClauses] : n \in 0..MaxKeywordClauses}}

\* r = SQLQuery(query=text)
ConstructQuery ==
    /\ rec = None
    /\ \E text \in KeywordTexts :
           LET args == [query |-> text, name |-> None, description |-> None,
                        parameters |-> None, created_at |-> None]
           IN  /\ given' = Some(args)
               /\ rec' = Some(PostInit(args, now))
    /\ UNCHANGED <<envVars, scriptVars, pipelineVars, tableVars, visuals, now, store, out, setups>>

NextKeywords == ConstructQuery \/ CallExtractSqlKeywords \/ CallExtractMetadata

SpecKeywords == InitRecord /\ [][NextKeywords]_vars

(***************************************************************************)
(* Properties of the metadata                                               *)
(***************************************************************************)
\* the first place where sep occurs in s, 0 if none
FirstAt(s, sep) ==
    LET places == {i \in 1..(Len(s) - Len(sep) + 1) : SubSeq(s, i, i + Len(sep) - 1) = sep}
    IN  IF places = {} THEN 0 ELSE CHOOSE i \in places : \A k \in places : i <= k

\* s.split(sep)
RECURSIVE Split(_, _)
Split(s, sep) ==
    LET i == FirstAt(s, sep)
    IN  IF i = 0 THEN <<s>>
        ELSE <<SubSeq(s, 1, i - 1)>> \o Split(SubSeq(s, i + Len(sep), Len(s)), sep)

K_JOIN == <<"J","O","I","N">>

K_LEFT_JOIN == <<"L","E","F","T"," ","J","O","I","N">>

K_WITH == <<"W","I","T","H">>

K_OVER == <<"O","V","E","R">>

\* the place of a keyword in the vocabulary
VocabularyIndex(kw) == CHOOSE i \in 1..Len(sql_keywords) : sql_keywords[i] = kw

IsIn(list, kw) == \E j \in 1..Len(list) : list[j] = kw

\* list holds exactly the vocabulary keywords that are substrings of the
\* upper-cased text, in the order of the vocabulary
MatchedInVocabularyOrder(list, text) ==
    LET upper == Upper(text)
    IN  /\ \A i \in 1..Len(sql_keywords) :
               IsIn(list, sql_keywords[i]) <=> Contains(upper, sql_keywords[i])
        /\ \A j \in 1..Len(list) : \E i \in 1..Len(sql_keywords) : list[j] = sql_keywords[i]
        /\ \A j \in 1..Len(list) : \A k \in (j + 1)..Len(list) :
               VocabularyIndex(list[j]) < VocabularyIndex(list[k])
        /\ (Contains(upper, K_WITH) /\ Contains(upper, K_OVER) /\ Contains(upper, K_JOIN)) =>
               SelectSeq(list, LAMBDA kw : kw \in {K_JOIN, K_WITH, K_OVER})
                   = <<K_JOIN, K_WITH, K_OVER>>

\* C7: the list _extract_sql_keywords returns, and the list joined into the
\* sql_keywords of extract_metadata, hold a vocabulary keyword exactly when it is
\* a substring of the upper-cased query text, in vocabulary order; a text with
\* WITH, OVER and JOIN yields the three as JOIN, WITH, OVER.  sql_keywords is
\* absent exactly when no keyword matches.
C7_KeywordsBySubstring ==
    /\ out.op = "_extract_sql_keywords" => MatchedInVocabularyOrder(out.found, rec[1].query)
    /\ out.op = "extract_metadata" =>
           IF "sql_keywords" \in DOMAIN out.metadata
           THEN MatchedInVocabularyOrder(Split(out.metadata.sql_keywords, S_CommaSpace),
                                         rec[1].query)
           ELSE MatchedInVocabularyOrder(<<>>, rec[1].query)

\* the metadata of a lower-case "left join" inside a WITH ... OVER text
C7_Witness ==
    /\ out.op = "extract_metadata"
    /\ rec[1].query = W_WITH \o W_OVER \o W_left_join
    /\ out.metadata.sql_keywords
           = K_JOIN \o S_CommaSpace \o K_LEFT_JOIN \o S_CommaSpace \o K_WITH
                 \o S_CommaSpace \o K_OVER

\* the number of entries of the parameters mapping of r, 0 when it is None
Entries(r) ==
    IF r.parameters = None THEN 0
    ELSE Cardinality({r.parameters[1][i].k : i \in 1..Len(r.parameters[1])})

\* C8: parameter_count is the number of entries of the parameters mapping, 0 when
\* parameters is None or empty, and has_parameters holds exactly when
\* parameter_count > 0; in extract_metadata and in the CSV metadata.
C8_ParameterCount ==
    /\ out.op = "extract_metadata" =>
           /\ out.metadata.parameter_count = Entries(rec[1])
           /\ out.metadata.has_parameters <=> out.metadata.parameter_count > 0
    /\ out.op = "_generate_csv_metadata" =>
           /\ Lookup(out.lines, "parameter_count") = DecimalText(Entries(rec[1]))
           /\ Lookup(out.lines, "has_parameters")
                  = (IF Entries(rec[1]) > 0 THEN S_True ELSE S_False)

\* the metadata of a record whose parameters are the empty dictionary
C8_Witness ==
    /\ out.op = "extract_metadata"
    /\ rec[1].parameters = Some(<<>>)
    /\ out.metadata.parameter_count = 0
    /\ ~out.metadata.has_parameters

(***************************************************************************)
(* sql_executor.py: SQLQuery._format_result_table.  The HTML text is the    *)
(* sequence of the pieces the method concatenates: a piece is its markup    *)
(* (the style attributes left out) and the text put inside it.              *)
(***************************************************************************)
S_No_results ==
    <<"N","o"," ","r","e","s","u","l","t","s"," ","t","o"," ","d","i","s","p","l","a","y",".">>
S_Jane == <<"J","a","n","e">>
S_Bob == <<"B","o","b">>

Piece(markup, text) == [html |-> markup, text |-> text]

\* str(v) of a scalar, as an f-string prints it
PyText(v) == IF v.t = "NoneType" THEN S_None ELSE v.v

\* str(row.get(header, ""))
CellText(row, header) == IF HasKey(row, header) THEN PyText(Lookup(row, header)) ELSE <<>>

\* the <th> pieces of the header loop
HeaderPieces(headers) == [j \in 1..Len(headers) |-> Piece("<th>", headers[j])]

\* the pieces one iteration of the row loop appends
RowPieces(row, headers) ==
    <<Piece("<tr>", <<>>)>>
        \o [j \in 1..Len(headers) |-> Piece("<td>", CellText(row, headers[j]))]
        \o <<Piece("</tr>", <<>>)>>

\* the pieces of the rows from the i-th on
RECURSIVE BodyPieces(_, _, _)
BodyPieces(rows, i, headers) ==
    IF i > Len(rows) THEN <<>>
    ELSE RowPieces(rows[i], headers) \o BodyPieces(rows, i + 1, headers)

\* FormatResultTable giving every row the columns of its own keys
FormatResultTable_OwnKeys(rows) ==
    IF rows = <<>> THEN <<Piece("<p>", S_No_results)>>
    ELSE <<Piece("<table>", <<>>), Piece("<thead><tr>", <<>>)>>
             \o HeaderPieces(Keys(rows[1]))
             \o <<Piece("</tr></thead><tbody>", <<>>)>>
             \o Concat([i \in 1..Len(rows) |-> RowPieces(rows[i], Keys(rows[i]))])
             \o <<Piece("</tbody></table>", <<>>)>>

\* SQLQuery._format_result_table(results)
FormatResultTable(rows) ==
    IF rows = <<>> THEN <<Piece("<p>", S_No_results)>>
    ELSE LET headers == Keys(rows[1])
         IN  <<Piece("<table>", <<>>), Piece("<thead><tr>", <<>>)>>
                 \o HeaderPieces(headers)
                 \o <<Piece("</tr></thead><tbody>", <<>>)>>
                 \o BodyPieces(rows, 1, headers)
                 \o <<Piece("</tbody></table>", <<>>)>>

MaxRows == 3

\* the rows a result list is made of
SampleRows ==
    {<<Item(S_id, PyInt(1)), Item(S_name, PyStr(S_John_Doe))>>,
     <<Item(S_name, PyStr(S_Jane)), Item(S_id, PyInt(2))>>,
     <<Item(S_id, PyInt(3))>>,
     <<Item(S_id, PyInt(4)), Item(S_name, PyNone), Item(S_email, PyStr(S_bob_mail))>>,
     <<Item(S_status, PyStr(<<>>))>>,
     <<>>}

SampleLists == UNION {[1..n -> SampleRows] : n \in 0..MaxRows}

\* record._format_result_table(sample)
CallFormatResultTable ==
    /\ table' = Some(FormatResultTable(sample))
    /\ UNCHANGED <<envVars, scriptVars, pipelineVars, recordVars, sample, setups>>

\* another result list is taken
TakeSample ==
    /\ table # None
    /\ sample' \in SampleLists
    /\ table' = None
    /\ UNCHANGED <<envVars, scriptVars, pipelineVars, recordVars, setups>>

InitTable ==
    /\ clientUp = TRUE
    /\ secrets = {}
    /\ ScriptIdle
    /\ PipelineIdle
    /\ RecordIdle
    /\ sample \in SampleLists
    /\ table = None
    /\ SetupIdle

NextTable == CallFormatResultTable \/ TakeSample

SpecTable == InitTable /\ [][NextTable]_vars

(***************************************************************************)
(* Properties of the table                                                  *)
(***************************************************************************)
\* the texts of the header cells of an HTML text, in order
HeaderCells(html) ==
    LET ths == SelectSeq(html, LAMBDA piece : piece.html = "<th>")
    IN  [j \in 1..Len(ths) |-> ths[j].text]

\* the cells of the row opened at place i: the texts up to the closing </tr>
CellsFrom(html, i) ==
    LET close == CHOOSE e \in (i + 1)..Len(html) :
                     /\ html[e].html = "</tr>"
                     /\ \A k \in (i + 1)..(e - 1) : html[k].html # "</tr>"
    IN  [k \in 1..(close - i - 1) |-> html[i + k]]

\* the body rows of an HTML text from place i on, each the sequence of its pieces
RECURSIVE BodyRows(_, _)
BodyRows(html, i) ==
    IF i > Len(html) THEN <<>>
    ELSE IF html[i].html = "<tr>" THEN <<CellsFrom(html, i)>> \o BodyRows(html, i + 1)
    ELSE BodyRows(html, i + 1)

HasTable(html) == \E i \in 1..Len(html) : html[i].html = "<table>"

\* C9: an empty preview gives the "No results to display." placeholder and no
\* table; otherwise the header cells are the keys of the first row in its key
\* order, there is one body row per entry, every body row has one <td> cell per
\* header, and the cell of a row that lacks the header's key is the empty text
\* (a key of a later row only has no column).
C9_TableShape ==
    table # None =>
        LET html == table[1]
            body == BodyRows(html, 1)
        IN  IF sample = <<>>
            THEN html = <<Piece("<p>", S_No_results)>> /\ ~HasTable(html)
            ELSE /\ HasTable(html)
                 /\ HeaderCells(html) = Keys(sample[1])
                 /\ Len(body) = Len(sample)
                 /\ \A i \in 1..Len(body) :
                        /\ Len(body[i]) = Len(HeaderCells(html))
                        /\ \A j \in 1..Len(body[i]) :
                               /\ body[i][j].html = "<td>"
                               /\ ~HasKey(sample[i], HeaderCells(html)[j]) =>
                                      body[i][j].text = <<>>
                               /\ HasKey(sample[i], HeaderCells(html)[j]) =>
                                      body[i][j].text
                                          = PyText(Lookup(sample[i], HeaderCells(html)[j]))

\* three rows: the second lacks the key name, the third has a key email that the
\* first has not
C9_Witness ==
    /\ table # None
    /\ Len(sample) = 3
    /\ Keys(sample[1]) = <<S_id, S_name>>
    /\ Keys(sample[2]) = <<S_id>>
    /\ Keys(sample[3]) = <<S_id, S_name, S_email>>
    /\ Len(table[1]) = 18

(***************************************************************************)
(* sql_executor.py: SQLQuery.execute, mock=False.  The outcome of a call is *)
(* [ok |-> TRUE, value |-> the dictionary returned] or [ok |-> FALSE,       *)
(* error |-> the text of the exception that leaves the call].               *)
(***************************************************************************)
S_Would_execute ==
    <<"W","o","u","l","d"," ","e","x","e","c","u","t","e"," ","q","u","e","r","y"," ","u","s",
      "i","n","g"," ","B","i","g","Q","u","e","r","y"," ","p","r","o","j","e","c","t",":"," ">>
S_Failed_to_execute ==
    <<"F","a","i","l","e","d"," ","t","o"," ","e","x","e","c","u","t","e"," ","q","u","e","r",
      "y",":"," ">>
E_no_repository ==
    <<"n","o"," ","a","c","t","i","v","e"," ","r","e","p","o","s","i","t","o","r","y">>
E_no_secret ==
    <<"s","e","c","r","e","t"," ","b","i","g","q","u","e","r","y","_","c","r","e","d","e","n",
      "t","i","a","l","s"," ","n","o","t"," ","f","o","u","n","d">>
V_project == <<"m","y","-","b","i","g","q","u","e","r","y","-","p","r","o","j","e","c","t">>

\* str(e) of the exceptions Client() and get_secret raise
ErrorTexts == {<<>>, E_no_repository, E_no_secret}

\* bq_secret.secret_values.get("project_id")
ProjectIds == {None, Some(V_project)}

\* _real_execute with Client() called before the try
RealExecute_ClientOutsideTry(r, client_exc, secret_exc, project_id) ==
    IF client_exc # None
    THEN [ok |-> FALSE, error |-> client_exc[1]]
    ELSE IF secret_exc # None
    THEN [ok |-> TRUE,
          value |-> [status |-> "error",
                     message |-> S_Failed_to_execute \o secret_exc[1],
                     query |-> r.query]]
    ELSE [ok |-> TRUE,
          value |-> [status |-> "success",
                     message |-> S_Would_execute \o OptText(project_id),
                     query |-> r.query,
                     mock |-> TRUE]]

\* SQLQuery._real_execute.  client_exc: the exception Client() raises, None when
\* it returns; secret_exc: the exception get_secret("bigquery_credentials")
\* raises, None when it returns; project_id: the value the secret holds.
RealExecute(r, client_exc, secret_exc, project_id) ==
    LET e == IF client_exc # None THEN client_exc ELSE secret_exc
    IN  IF e # None
        THEN [ok |-> TRUE,
              value |-> [status |-> "error",
                         message |-> S_Failed_to_execute \o e[1],
                         query |-> r.query]]
        ELSE [ok |-> TRUE,
              value |-> [status |-> "success",
                         message |-> S_Would_execute \o OptText(project_id),
                         query |-> r.query,
                         mock |-> TRUE]]

\* SQLQuery.execute(mock)
Execute(r, mock, clock, client_exc, secret_exc, project_id) ==
    IF mock
    THEN [ok |-> TRUE, value |-> MockExecute(r, clock)]
    ELSE RealExecute(r, client_exc, secret_exc, project_id)

\* r.execute(mock=False)
CallExecuteReal ==
    /\ rec # None
    /\ \E err \in ErrorTexts, project_id \in ProjectIds :
           LET client_exc == IF clientUp THEN None ELSE Some(err)
               secret_exc == IF "bigquery_credentials" \in secrets THEN None ELSE Some(err)
           IN  out' = [op |-> "execute", mock |-> FALSE,
                       exception |-> IF client_exc # None THEN client_exc ELSE secret_exc,
                       client_ok |-> clientUp,
                       outcome |-> Execute(rec[1], FALSE, now, client_exc, secret_exc,
                                           project_id)]
    /\ UNCHANGED <<envVars, scriptVars, pipelineVars, tableVars, visuals, now, given, rec, store, setups>>

\* r.execute(mock=True), also r.execute()
CallExecuteMock ==
    /\ rec # None
    /\ out' = [op |-> "execute", mock |-> TRUE,
               outcome |-> Execute(rec[1], TRUE, now, None, None, None)]
    /\ UNCHANGED <<envVars, scriptVars, pipelineVars, tableVars, visuals, now, given, rec, store, setups>>

(***************************************************************************)
(* The two integration points against one environment: execute_sql_script  *)
(* on a query text and execute(mock=False) of the SQLQuery of that text.    *)
(***************************************************************************)
IntegrationTexts == {Q_select, Q_insert, C_CREATE}

\* r = SQLQuery(query=query)
ConstructOfQuery ==
    /\ rec = None
    /\ LET args == [query |-> query, name |-> None, description |-> None,
                    parameters |-> None, created_at |-> None]
       IN  /\ given' = Some(args)
           /\ rec' = Some(PostInit(args, now))
    /\ UNCHANGED <<envVars, scriptVars, pipelineVars, tableVars, visuals, now, store, out, setups>>

InitIntegration ==
    /\ clientUp \in BOOLEAN
    /\ secrets \in SUBSET SecretNames
    /\ query \in IntegrationTexts
    /\ lastRun = None
    /\ prevRun = None
    /\ PipelineIdle
    /\ RecordIdle
    /\ TableIdle
    /\ SetupIdle

NextIntegration ==
    \/ RunScript
    \/ ConstructOfQuery
    \/ CallExecuteReal
    \/ StoreSecret
    \/ DropSecret
    \/ ClientChange

SpecIntegration == InitIntegration /\ [][NextIntegration]_vars

\* the latest operation on the record was execute(mock=False)
RealExecuted == out.op = "execute" /\ ~out.mock

\* C11: execute(mock=False) returns, whenever Client() or get_secret raises, a
\* result with status "error", a message ending in the exception text and the
\* query; execute_sql_script returns, whenever Client() raises, status "error",
\* error_message the exception text, rows_affected 0 and execution_time_ms 0;
\* every call of either returns a result whose status is "success" or "error".
C11_FailuresBecomeErrorResults ==
    /\ RealExecuted =>
           /\ out.outcome.ok
           /\ out.outcome.value.status \in {"success", "error"}
           /\ out.outcome.value.query = rec[1].query
           /\ out.exception # None =>
                  /\ out.outcome.value.status = "error"
                  /\ out.outcome.value.message = S_Failed_to_execute \o out.exception[1]
           /\ out.exception = None => out.outcome.value.status = "success"
    /\ lastRun # None =>
           /\ LastResult.status \in {"success", "error"}
           /\ ~lastRun[1].client_ok =>
                  /\ LastResult.status = "error"
                  /\ LastResult.error_message = ClientError
                  /\ LastResult.rows_affected = 0
                  /\ LastResult.execution_time_ms = 0

\* Client() raised in execute(mock=False) and, in the same environment, in
\* execute_sql_script
C11_Witness ==
    /\ RealExecuted
    /\ ~out.client_ok
    /\ out.exception = Some(E_no_repository)
    /\ out.outcome.ok
    /\ out.outcome.value.status = "error"
    /\ lastRun # None
    /\ ~lastRun[1].client_ok
    /\ LastResult.status = "error"

(***************************************************************************)
(* The classification of execute_sql_script, stated over the verbs          *)
(***************************************************************************)
Verbs == <<K_SELECT, K_INSERT, K_UPDATE, K_DELETE>>

VerbTypes == <<"query", "insert", "update", "delete">>

\* the positions in Verbs of the verbs the upper-cased text holds
OccurringVerbs(q) ==
    LET u == Upper(q)
    IN  {i \in 1..Len(Verbs) : Contains(u, Verbs[i])}

\* the type of the first verb, in the order of Verbs, that the text holds
FirstVerbType(q) ==
    LET occ == OccurringVerbs(q)
    IN  IF occ = {} THEN "unknown"
        ELSE VerbTypes[CHOOSE i \in occ : \A j \in occ : i <= j]

IsClassifiedByFirstVerb(r, q) ==
    LET type == FirstVerbType(q)
    IN  /\ "result_type" \in DOMAIN r
        /\ r.result_type = type
        /\ type = "unknown" =>
               /\ r.status = "success"
               /\ r.rows_affected = 0
               /\ r.sample_data = <<>>

\* C12 (as stated): every call returns the result_type of the first of SELECT,
\* INSERT, UPDATE, DELETE that occurs anywhere in the upper-cased text, and for a
\* text holding none of them status "success", result_type "unknown",
\* rows_affected 0 and an empty sample_data.
C12_FirstVerbAlways ==
    lastRun # None => IsClassifiedByFirstVerb(LastResult, query)

\* C12 (amended): the same for every call in which Client() is constructed; a
\* call in which Client() raises returns status "error" and no result_type.
C12_FirstVerbWhenClientUp ==
    lastRun # None =>
        IF lastRun[1].client_ok
        THEN IsClassifiedByFirstVerb(LastResult, query)
        ELSE LastResult.status = "error" /\ "result_type" \notin DOMAIN LastResult

\* a text holding none of the four verbs, executed with a working client
C12_Witness ==
    /\ lastRun # None
    /\ lastRun[1].client_ok
    /\ query = C_CREATE
    /\ LastResult.result_type = "unknown"

(***************************************************************************)
(* sql_executor.py: SQLQuery.to_html; sql_materializer.py:                  *)
(* _generate_markdown_summary and save_visualizations.  A generated text is *)
(* the record of the values its template interpolates, each under the name  *)
(* of its place in the template.                                             *)
(***************************************************************************)
S_No_description ==
    <<"N","o"," ","d","e","s","c","r","i","p","t","i","o","n"," ","p","r","o","v","i","d","e",
      "d">>
S_No_parameters == <<"N","o"," ","p","a","r","a","m","e","t","e","r","s">>

\* json.dumps(self.parameters, indent=2)
JsonDumps(parameters) == OptDictToJson(parameters)

\* SQLQuery.to_html
ToHtml(r, clock) ==
    LET execution_result == Execute(r, TRUE, clock, None, None, None).value
    IN  [name |-> OptText(r.name),
         query |-> r.query,
         description |-> IF Truthy(r.description) THEN r.description ELSE None,
         status |-> StatusText(execution_result.status),
         rows_affected |-> DecimalText(execution_result.rows_affected),
         execution_time_ms |-> DecimalText(execution_result.execution_time_ms),
         result_table |-> FormatResultTable(execution_result.result_preview),
         created_at |-> IF r.created_at = None THEN S_None
                        ELSE StrDatetime(r.created_at[1]),
         query_hash |-> HashText(r.query),
         parameters |-> IF Truthy(r.parameters) THEN Some(JsonDumps(r.parameters))
                        ELSE None]

\* SQLQueryMaterializer._generate_markdown_summary(data)
GenerateMarkdownSummary(r, clock) ==
    LET execution_result == Execute(r, TRUE, clock, None, None, None).value
    IN  [title |-> OptText(r.name),
         name |-> OptText(r.name),
         created |-> IF r.created_at = None THEN S_None
                     ELSE StrDatetime(r.created_at[1]),
         details_status |-> StatusText(execution_result.status),
         query |-> r.query,
         description |-> IF Truthy(r.description) THEN r.description[1]
                         ELSE S_No_description,
         rows_affected |-> DecimalText(execution_result.rows_affected),
         execution_time_ms |-> DecimalText(execution_result.execution_time_ms),
         status |-> StatusText(execution_result.status),
         parameters |-> IF Truthy(r.parameters)
                        THEN [json |-> Some(JsonDumps(r.parameters)), text |-> <<>>]
                        ELSE [json |-> None, text |-> S_No_parameters],
         query_hash |-> HashText(r.query),
         sql_keywords |-> Join(S_CommaSpace, ExtractSqlKeywords(r.query))]

\* the files save_visualizations writes
VisualizationFiles(r, clock) ==
    [html |-> ToHtml(r, clock),
     markdown |-> GenerateMarkdownSummary(r, clock),
     csv |-> GenerateCsvMetadata(r, clock)]

\* the dictionary save_visualizations returns
Visualizations ==
    <<Item("sql_query_visualization.html", "HTML"),
      Item("sql_query_summary.md", "MARKDOWN"),
      Item("query_metadata.csv", "CSV")>>

\* to_html that stores a default description on the record
CallToHtml_SetsDescription ==
    /\ rec # None
    /\ rec' = Some([rec[1] EXCEPT !.description = Some(S_No_description)])
    /\ out' = [op |-> "to_html", html |-> ToHtml(rec[1], now)]
    /\ UNCHANGED <<envVars, scriptVars, pipelineVars, tableVars, visuals, now, given, store, setups>>

\* r.to_html()
CallToHtml ==
    /\ rec # None
    /\ out' = [op |-> "to_html", html |-> ToHtml(rec[1], now)]
    /\ UNCHANGED <<envVars, scriptVars, pipelineVars, tableVars, visuals, now, given, rec, store, setups>>

\* materializer._generate_markdown_summary(r)
CallGenerateMarkdownSummary ==
    /\ rec # None
    /\ out' = [op |-> "_generate_markdown_summary",
               markdown |-> GenerateMarkdownSummary(rec[1], now)]
    /\ UNCHANGED <<envVars, scriptVars, pipelineVars, tableVars, visuals, now, given, rec, store, setups>>

\* materializer.save_visualizations(r)
SaveVisualizations ==
    /\ rec # None
    /\ visuals' = Some(VisualizationFiles(rec[1], now))
    /\ out' = [op |-> "save_visualizations", visualizations |-> Visualizations]
    /\ UNCHANGED <<envVars, scriptVars, pipelineVars, tableVars, now, given, rec, store, setups>>

(***************************************************************************)
(* The record under study and its codec                                     *)
(***************************************************************************)
NextRecord ==
    \/ Tick
    \/ Construct
    \/ CallToDict
    \/ CallFromDict
    \/ Save
    \/ Load
    \/ CallExtractMetadata
    \/ CallGenerateCsvMetadata

SpecRecord == InitRecord /\ [][NextRecord]_vars

(***************************************************************************)
(* One record through every operation that reads it                        *)
(***************************************************************************)
LifeArgs ==
    [query : RecordQueries,
     name : {None, Some(N_report)},
     description : {None, Some(D_daily)},
     parameters : {None, Some(<<Item(P_limit, PyInt(100))>>)},
     created_at : {None}]

\* r = SQLQuery(...)
ConstructLife ==
    /\ rec = None
    /\ \E args \in LifeArgs :
           /\ given' = Some(args)
           /\ rec' = Some(PostInit(args, now))
    /\ UNCHANGED <<envVars, scriptVars, pipelineVars, tableVars, visuals, now, store, out, setups>>

NextLife ==
    \/ Tick
    \/ ConstructLife
    \/ CallToDict
    \/ Save
    \/ CallExtractMetadata
    \/ CallGenerateCsvMetadata
    \/ CallExecuteMock
    \/ CallExecuteReal
    \/ CallToHtml
    \/ CallGenerateMarkdownSummary
    \/ SaveVisualizations

SpecLife == InitRecord /\ [][NextLife]_vars

(***************************************************************************)
(* Properties of the record through its life                                *)
(***************************************************************************)
\* C13: once constructed, the record keeps its query, name, description,
\* parameters and created_at through every to_dict, execute (mock or real),
\* to_html, save, save_visualizations and extract_metadata.
C13_RecordNotMutated ==
    [][rec # None =>
           /\ rec'[1].query = rec[1].query
           /\ rec'[1].name = rec[1].name
           /\ rec'[1].description = rec[1].description
           /\ rec'[1].parameters = rec[1].parameters
           /\ rec'[1].created_at = rec[1].created_at]_vars

\* the record was saved, its visualizations were written, and it was then
\* executed for real, time having passed since its construction
C13_Witness ==
    /\ rec # None
    /\ store # None
    /\ visuals # None
    /\ out.op = "execute"
    /\ ~out.mock
    /\ Before(rec[1].created_at[1], now)

T_42 == <<"4","2">>

T_150 == <<"1","5","0">>

\* C14: execute(mock=True) returns status "success", rows_affected 42,
\* execution_time_ms 150 and the same three rows with keys id, name, email,
\* whatever the record and the time of the call; extract_metadata, to_html, the
\* Markdown summary and the CSV metadata each report these same three values.
C14_MockIndependentOfQuery ==
    /\ (out.op = "execute" /\ out.mock) =>
           LET v == out.outcome.value
           IN  /\ out.outcome.ok
               /\ v.status = "success"
               /\ v.rows_affected = 42
               /\ v.execution_time_ms = 150
               /\ v.result_preview = MockResultPreview
               /\ Len(v.result_preview) = 3
               /\ RowsHaveKeys(v.result_preview, <<S_id, S_name, S_email>>)
    /\ out.op = "extract_metadata" =>
           /\ out.metadata.execution_status = "success"
           /\ out.metadata.rows_affected = 42
           /\ out.metadata.execution_time_ms = 150
    /\ out.op = "to_html" =>
           /\ out.html.status = S_success
           /\ out.html.rows_affected = T_42
           /\ out.html.execution_time_ms = T_150
           /\ HeaderCells(out.html.result_table) = <<S_id, S_name, S_email>>
    /\ out.op = "_generate_markdown_summary" =>
           /\ out.markdown.status = S_success
           /\ out.markdown.details_status = S_success
           /\ out.markdown.rows_affected = T_42
           /\ out.markdown.execution_time_ms = T_150
    /\ out.op = "_generate_csv_metadata" =>
           /\ Lookup(out.lines, "execution_status") = S_success
           /\ Lookup(out.lines, "rows_affected") = T_42
           /\ Lookup(out.lines, "execution_time_ms") = T_150
    /\ visuals # None =>
           /\ visuals[1].html.status = visuals[1].markdown.status
           /\ visuals[1].html.status = Lookup(visuals[1].csv, "execution_status")
           /\ visuals[1].html.rows_affected = visuals[1].markdown.rows_affected
           /\ visuals[1].html.rows_affected = Lookup(visuals[1].csv, "rows_affected")
           /\ visuals[1].html.execution_time_ms = visuals[1].markdown.execution_time_ms
           /\ visuals[1].html.execution_time_ms =
                  Lookup(visuals[1].csv, "execution_time_ms")
           /\ visuals[1].html.rows_affected = T_42

\* the Markdown summary of an INSERT statement, generated after its
\* visualizations were written at an earlier time
C14_Witness ==
    /\ rec # None
    /\ rec[1].query = Q_insert
    /\ visuals # None
    /\ out.op = "_generate_markdown_summary"
    /\ out.markdown.rows_affected = T_42
    /\ Before(rec[1].created_at[1], now)

(***************************************************************************)
(* setup_secrets.py: setup_bigquery_secret.  A run is the sequence of the   *)
(* calls it makes on the client, each with whether it returned, and whether *)
(* an exception left the function.                                           *)
(***************************************************************************)
\* the number of runs followed
MaxRuns == 3

Call(f, ok) == [f |-> f, ok |-> ok]

\* setup_bigquery_secret without the return after a successful get_secret
SetupBigquerySecret_NoReturn(client_ok, held, store_ok) ==
    LET get_ok == store_ok /\ held
        create_ok == store_ok /\ ~held
    IN  IF ~client_ok
        THEN [calls |-> <<Call("Client", FALSE)>>, raised |-> FALSE, created |-> FALSE]
        ELSE [calls |-> <<Call("Client", TRUE), Call("get_secret", get_ok),
                          Call("create_secret", create_ok)>>,
              raised |-> FALSE,
              created |-> create_ok]

\* setup_bigquery_secret().  client_ok: Client() returns; held: the store holds
\* bigquery_credentials; store_ok: the store answers (get_secret raises only
\* for a secret it does not hold, create_secret returns).
SetupBigquerySecret(client_ok, held, store_ok) ==
    LET get_ok == store_ok /\ held
        create_ok == store_ok /\ ~held
    IN  IF ~client_ok
        THEN [calls |-> <<Call("Client", FALSE)>>, raised |-> FALSE, created |-> FALSE]
        ELSE IF get_ok
        THEN [calls |-> <<Call("Client", TRUE), Call("get_secret", TRUE)>>,
              raised |-> FALSE,
              created |-> FALSE]
        ELSE [calls |-> <<Call("Client", TRUE), Call("get_secret", FALSE),
                          Call("create_secret", create_ok)>>,
              raised |-> FALSE,
              created |-> create_ok]

\* one run of the script
RunSetup ==
    /\ Len(setups) < MaxRuns
    /\ \E store_ok \in BOOLEAN :
           LET held == "bigquery_credentials" \in secrets
               run == SetupBigquerySecret(clientUp, held, store_ok)
           IN  /\ setups' = Append(setups, [client_ok |-> clientUp,
                                            held |-> held,
                                            store_ok |-> store_ok,
                                            calls |-> run.calls,
                                            raised |-> run.raised,
                                            created |-> run.created])
               /\ secrets' = IF run.created
                             THEN secrets \cup {"bigquery_credentials"}
                             ELSE secrets
    /\ UNCHANGED <<clientUp, scriptVars, pipelineVars, recordVars, tableVars>>

InitSetup ==
    /\ clientUp \in BOOLEAN
    /\ secrets \in SUBSET SecretNames
    /\ ScriptIdle
    /\ PipelineIdle
    /\ RecordIdle
    /\ TableIdle
    /\ SetupIdle

NextSetup == RunSetup \/ ClientChange

SpecSetup == InitSetup /\ [][NextSetup]_vars

\* the positions in a run's calls of its calls of f
CallsOf(run, f) == {i \in 1..Len(run.calls) : run.calls[i].f = f}

\* create_secret is called at most once, and only after a get_secret that
\* failed; a successful get_secret ends the run; nothing is raised
IsCheckThenCreate(run) ==
    /\ ~run.raised
    /\ Cardinality(CallsOf(run, "create_secret")) <= 1
    /\ \A i \in CallsOf(run, "create_secret") :
           \E j \in CallsOf(run, "get_secret") : j < i /\ ~run.calls[j].ok
    /\ \A j \in CallsOf(run, "get_secret") :
           run.calls[j].ok => CallsOf(run, "create_secret") = {}
    /\ ~run.client_ok => (CallsOf(run, "get_secret") = {} /\ ~run.created)
    /\ run.created =>
           \E i \in CallsOf(run, "create_secret") : run.calls[i].ok

\* every run so far had a working client and a working store
AllWorking == \A n \in 1..Len(setups) : setups[n].client_ok /\ setups[n].store_ok

\* the number of runs so far that created the secret
Creations == Cardinality({n \in 1..Len(setups) : setups[n].created})

\* C15 (as stated): every run is check-then-create and raises nothing, and any
\* number of runs in sequence against a working client and store create the
\* secret exactly once.
C15_CreatesExactlyOnce ==
    /\ \A n \in 1..Len(setups) : IsCheckThenCreate(setups[n])
    /\ (setups # <<>> /\ AllWorking) => Creations = 1

\* C15 (amended): every run is check-then-create and raises nothing; one or
\* more runs in sequence against a working client and store create the secret
\* exactly once when the store did not hold it before the first run, and never
\* when it did; after them the store holds the secret.
C15_CreatesOnceIfAbsent ==
    /\ \A n \in 1..Len(setups) : IsCheckThenCreate(setups[n])
    /\ (setups # <<>> /\ AllWorking) =>
           /\ Creations = (IF setups[1].held THEN 0 ELSE 1)
           /\ "bigquery_credentials" \in secrets

\* three runs against a working store that did not hold the secret: the first
\* created it, the later ones found it
C15_Witness ==
    /\ Len(setups) = 3
    /\ AllWorking
    /\ ~setups[1].held
    /\ setups[1].created
    /\ ~setups[2].created
    /\ ~setups[3].created

=============================================================================
